---------------------------- MODULE Spec2Model ----------------------------
(***************************************************************************)
(* conference-minds: the transcript pipeline of src/src/core.py (format    *)
(* detection, normalisation, speaker segmentation, skills) and the        *)
(* conference store (save_mind / load_mind / list_minds, the delete and   *)
(* default-conference handlers of scripts/cli.py and scripts/mcp_server.py)*)
(*                                                                         *)
(* Text is modelled character by character: a Python str is a TLA+ string, *)
(* read with Len, SubSeq and \o.                                           *)
(***************************************************************************)
EXTENDS Integers, Sequences, FiniteSets, TLC

VARIABLES
    disk,       \* Spec: the file system under MINDS_DIR, [dirs, files]
    op,         \* Spec: the last operation and its arguments
    ret,        \* Spec: what the last operation returned
    lastIngest, \* Spec (history): the last ingest, the mind it returned and whether
                \*   it replaced a stored conference / was followed by a delete
    deleted,    \* Spec (history): the slugs of the stored conferences deleted by
                \*   name and not ingested again since
    plain,      \* Spec (history): every change so far was an ingest under a
                \*   non-empty slug that held no conference
    changes,    \* Spec (history): how many ingest and delete calls have run
    text,       \* SpecClean: the transcript text handed to clean_transcript
    fmt,        \* SpecClean: the format it is cleaned as
    cleaned,    \* SpecClean: clean_transcript(text, fmt)
    recleaned,  \* SpecClean: clean_transcript(cleaned, fmt)
    pcClean,    \* SpecClean: "input", "cleaned", "recleaned"
    ctext,      \* SpecExtract: the clean text handed to extract_speakers
    xspeakers,  \* SpecExtract: the Speaker list built from it
    pcExtract   \* SpecExtract: "text", "segmented", "profiled"

storeVars == <<disk, op, ret, lastIngest, deleted, plain, changes>>
cleanVars == <<text, fmt, cleaned, recleaned, pcClean>>
extractVars == <<ctext, xspeakers, pcExtract>>

vars == <<disk, op, ret, lastIngest, deleted, plain, changes,
          text, fmt, cleaned, recleaned, pcClean, ctext, xspeakers, pcExtract>>

(***************************************************************************)
(* Characters and the str methods the code uses.                           *)
(***************************************************************************)
Ch(s, i) == SubSeq(s, i, i)

UpperChars == "ABCDEFGHIJKLMNOPQRSTUVWXYZ"
LowerChars == "abcdefghijklmnopqrstuvwxyz"
DigitChars == "0123456789"

CharsOf(s) == {Ch(s, i) : i \in 1..Len(s)}

UpperSet == CharsOf(UpperChars)
LowerSet == CharsOf(LowerChars)
DigitSet == CharsOf(DigitChars)
SpaceSet == {" ", "\n"}

\* str.lower() on one character
ToLower == [c \in UpperSet |-> Ch(LowerChars, CHOOSE i \in 1..26 : Ch(UpperChars, i) = c)]
ToUpper == [c \in LowerSet |-> Ch(UpperChars, CHOOSE i \in 1..26 : Ch(LowerChars, i) = c)]

LowerCh(c) == IF c \in UpperSet THEN ToLower[c] ELSE c
UpperCh(c) == IF c \in LowerSet THEN ToUpper[c] ELSE c

\* the least and the greatest element of a non-empty set of integers
Min(S) == CHOOSE x \in S : \A y \in S : x <= y
Max(S) == CHOOSE x \in S : \A y \in S : x >= y

RECURSIVE Concat(_, _, _)
\* parts[lo] \o ... \o parts[hi], split in halves (the recursion stays shallow)
Concat(parts, lo, hi) ==
    IF lo > hi THEN ""
    ELSE IF lo = hi THEN parts[lo]
    ELSE LET mid == (lo + hi) \div 2
         IN  Concat(parts, lo, mid) \o Concat(parts, mid + 1, hi)

\* str.lower()
lower(s) == Concat([i \in 1..Len(s) |-> LowerCh(Ch(s, i))], 1, Len(s))

\* str.strip()
strip(s) ==
    LET kept == {i \in 1..Len(s) : Ch(s, i) \notin SpaceSet}
    IN  IF kept = {} THEN "" ELSE SubSeq(s, Min(kept), Max(kept))

\* str.lstrip()
LStrip(s) ==
    LET kept == {i \in 1..Len(s) : Ch(s, i) \notin SpaceSet}
    IN  IF kept = {} THEN "" ELSE SubSeq(s, Min(kept), Len(s))

\* str.split(sep) for a one-character separator: the pieces between the separators
split(s, sep) ==
    LET at == {i \in 1..Len(s) : Ch(s, i) = sep}
        nth(k) == IF k = 0 THEN 0
                  ELSE IF k > Cardinality(at) THEN Len(s) + 1
                  ELSE CHOOSE i \in at : Cardinality({j \in at : j < i}) = k - 1
    IN  [k \in 1..(Cardinality(at) + 1) |-> SubSeq(s, nth(k - 1) + 1, nth(k) - 1)]

\* sep.join(parts)
join(sep, parts) ==
    Concat([i \in 1..Len(parts) |-> IF i = 1 THEN parts[i] ELSE sep \o parts[i]], 1, Len(parts))

\* s.startswith(p)
startswith(s, p) == Len(s) >= Len(p) /\ SubSeq(s, 1, Len(p)) = p

\* the indices of s where p occurs
Occurrences(s, p) == {i \in 1..(Len(s) - Len(p) + 1) : SubSeq(s, i, i + Len(p) - 1) = p}

\* p in s
contains(s, p) == Occurrences(s, p) # {}

RECURSIVE CountFrom(_, _, _)
\* the occurrences counted left to right, each search resuming after the last match
CountFrom(occ, plen, i) ==
    LET later == {j \in occ : j >= i}
    IN  IF later = {} THEN 0 ELSE 1 + CountFrom(occ, plen, Min(later) + plen)

\* s.count(p): non-overlapping occurrences, p non-empty
count(s, p) == CountFrom(Occurrences(s, p), Len(p), 1)

\* the first n items of a list: xs[:n]
Take(xs, n) == SubSeq(xs, 1, IF Len(xs) < n THEN Len(xs) ELSE n)

\* the length of the run of characters of s, from index i on, that belong to cls
ClassRun(s, i, cls) ==
    LET stops == {j \in i..Len(s) : Ch(s, j) \notin cls}
    IN  IF i > Len(s) THEN 0
        ELSE IF stops = {} THEN Len(s) - i + 1
        ELSE Min(stops) - i

(***************************************************************************)
(* The regular expressions of the ingest layer.                            *)
(***************************************************************************)
\* re.match(r'^\d+$', s)
MatchAllDigits(s) == s # "" /\ ClassRun(s, 1, DigitSet) = Len(s)

\* the length matched by r'^\d{1,2}:\d{2}' at the start of s, 0 when it does not
\* match: one or two digits, a colon, two digits
ClockPrefixLen(s) ==
    LET d == ClassRun(s, 1, DigitSet)
        ok(k) == /\ d >= k
                 /\ Len(s) >= k + 3
                 /\ Ch(s, k + 1) = ":"
                 /\ Ch(s, k + 2) \in DigitSet
                 /\ Ch(s, k + 3) \in DigitSet
    IN  IF ok(2) THEN 5 ELSE IF ok(1) THEN 4 ELSE 0

\* re.match(r'^\d{2}:\d{2}', s)
MatchClock2(s) ==
    /\ Len(s) >= 5
    /\ Ch(s, 1) \in DigitSet /\ Ch(s, 2) \in DigitSet
    /\ Ch(s, 3) = ":"
    /\ Ch(s, 4) \in DigitSet /\ Ch(s, 5) \in DigitSet

\* the length matched by r'^\d{1,2}:\d{2}(:\d{2})?\s*' at the start of s (0: no match)
TimestampLen(s) ==
    LET c == ClockPrefixLen(s)
        secs == /\ Len(s) >= c + 3
                /\ Ch(s, c + 1) = ":"
                /\ Ch(s, c + 2) \in DigitSet
                /\ Ch(s, c + 3) \in DigitSet
        e == IF secs THEN c + 3 ELSE c
    IN  IF c = 0 THEN 0 ELSE e + ClassRun(s, e + 1, SpaceSet)

(***************************************************************************)
(* Layer 1: clean_transcript and its four cleaners.                        *)
(***************************************************************************)
\* line.strip() of every line
StripAll(lines) == [i \in 1..Len(lines) |-> strip(lines[i])]

\* the loop of _clean_srt keeps a stripped line unless it is a sequence number,
\* holds a time range or is blank
SrtKeep(line) == ~MatchAllDigits(line) /\ ~contains(line, "-->") /\ line # ""

_clean_srt(t) == join("\n", SelectSeq(StripAll(split(strip(t), "\n")), SrtKeep))

VttKeep(line) ==
    /\ ~(startswith(line, "WEBVTT") \/ startswith(line, "NOTE"))
    /\ ~contains(line, "-->")
    /\ ~MatchClock2(line)
    /\ line # ""

_clean_vtt(t) == join("\n", SelectSeq(StripAll(split(strip(t), "\n")), VttKeep))

\* re.sub(r'^\d{1,2}:\d{2}(:\d{2})?\s*', '', line): the pattern is anchored, so at
\* most one leading timestamp is removed
StripTimestamp(line) == SubSeq(line, TimestampLen(line) + 1, Len(line))

NonEmpty(line) == line # ""

_clean_youtube(t) ==
    LET lines == StripAll(split(strip(t), "\n"))
    IN  join("\n", SelectSeq([i \in 1..Len(lines) |-> StripTimestamp(lines[i])], NonEmpty))

_clean_raw(t) == join("\n", SelectSeq(StripAll(split(strip(t), "\n")), NonEmpty))

Formats == {"srt", "vtt", "youtube", "labeled", "raw"}

clean_transcript(t, f) ==
    IF f = "srt" THEN _clean_srt(t)
    ELSE IF f = "vtt" THEN _clean_vtt(t)
    ELSE IF f = "youtube" THEN _clean_youtube(t)
    ELSE _clean_raw(t)

(***************************************************************************)
(* slugify and detect_format.                                              *)
(***************************************************************************)
\* \w of the re module, over the characters of the model
WordSet == UpperSet \cup LowerSet \cup DigitSet \cup {"_"}

\* re.sub(r'[^\w\s-]', '', s)
KeepSlugChars(s) ==
    Concat([i \in 1..Len(s) |->
               LET c == Ch(s, i)
               IN  IF c \in WordSet \/ c \in SpaceSet \/ c = "-" THEN c ELSE ""],
           1, Len(s))

\* re.sub(r'[\s_]+', '-', s): the first character of a run becomes the hyphen, the
\* rest of the run goes
HyphenateRuns(s) ==
    LET inRun(i) == i >= 1 /\ (Ch(s, i) \in SpaceSet \/ Ch(s, i) = "_")
    IN  Concat([i \in 1..Len(s) |->
                   IF ~inRun(i) THEN Ch(s, i)
                   ELSE IF inRun(i - 1) THEN "" ELSE "-"],
               1, Len(s))

\* s.strip('-')
StripHyphens(s) ==
    LET kept == {i \in 1..Len(s) : Ch(s, i) # "-"}
    IN  IF kept = {} THEN "" ELSE SubSeq(s, Min(kept), Max(kept))

\* the hyphens stripped before the runs are hyphenated
slugifyStripFirst(name) == HyphenateRuns(StripHyphens(KeepSlugChars(lower(name))))

slugify(name) == StripHyphens(HyphenateRuns(KeepSlugChars(lower(name))))

\* [a-zA-Z\s\.] of detect_format's label_pattern
LabelClass == UpperSet \cup LowerSet \cup SpaceSet \cup {"."}

\* label_pattern.match(s) with r'^[A-Z][a-zA-Z\s\.]+:': the class holds no colon, so
\* the run after the capital must be non-empty and end right at a colon
LabelPatternMatch(s) ==
    /\ s # ""
    /\ Ch(s, 1) \in UpperSet
    /\ LET r == ClassRun(s, 2, LabelClass)
       IN  r >= 1 /\ Len(s) >= r + 2 /\ Ch(s, r + 2) = ":"

\* the vtt and youtube rules tried before the srt rule
detect_formatSrtLate(t) ==
    LET lines == Take(split(strip(t), "\n"), 20)
        n == Len(lines)
        label_count == Cardinality({i \in 1..n : LabelPatternMatch(strip(lines[i]))})
    IN  IF startswith(strip(lines[1]), "WEBVTT") THEN "vtt"
        ELSE IF \E i \in 1..n : i <= 10 /\ ClockPrefixLen(strip(lines[i])) > 0 THEN "youtube"
        ELSE IF /\ \E i \in 1..n : i <= 5 /\ MatchAllDigits(strip(lines[i]))
                /\ \E i \in 1..n : i <= 10 /\ contains(lines[i], "-->")
        THEN "srt"
        ELSE IF label_count >= 3 THEN "labeled"
        ELSE "raw"

detect_format(t) ==
    LET lines == Take(split(strip(t), "\n"), 20)
        n == Len(lines)
        label_count == Cardinality({i \in 1..n : LabelPatternMatch(strip(lines[i]))})
    IN  IF /\ \E i \in 1..n : i <= 5 /\ MatchAllDigits(strip(lines[i]))
           /\ \E i \in 1..n : i <= 10 /\ contains(lines[i], "-->")
        THEN "srt"
        ELSE IF startswith(strip(lines[1]), "WEBVTT") THEN "vtt"
        ELSE IF \E i \in 1..n : i <= 10 /\ ClockPrefixLen(strip(lines[i])) > 0 THEN "youtube"
        ELSE IF label_count >= 3 THEN "labeled"
        ELSE "raw"

(***************************************************************************)
(* Layer 2: extract_speakers.  A Passage is [speaker, text, position,      *)
(* timestamp, topics]; a Speaker is [name, passages, soul, skills] (role,  *)
(* affiliation, claims and signature_phrases keep their defaults           *)
(* everywhere in the code and are left out).                               *)
(***************************************************************************)
\* [a-zA-Z\s\.\'] of extract_speakers' speaker_pattern
SpeakerClass == LabelClass \cup {"'"}

\* the length of group 1 of r'^([A-Z][a-zA-Z\s\.\']+?):\s*(.*)' on s, 0 when the
\* pattern does not match: the lazy run stops at the first colon
SpeakerLabelLen(s) ==
    IF s = "" \/ Ch(s, 1) \notin UpperSet THEN 0
    ELSE LET r == ClassRun(s, 2, SpeakerClass)
         IN  IF r >= 1 /\ Len(s) >= r + 2 /\ Ch(s, r + 2) = ":" THEN r + 1 ELSE 0

SpeakerPatternMatch(s) == SpeakerLabelLen(s) > 0

\* match.group(1) and match.group(2) (group 2 starts after the colon and \s*)
SpeakerGroup1(s) == SubSeq(s, 1, SpeakerLabelLen(s))
SpeakerGroup2(s) == LStrip(SubSeq(s, SpeakerLabelLen(s) + 2, Len(s)))

NoSoul == [kind |-> "empty"]

Passage(name, txt, position) ==
    [speaker |-> name, text |-> txt, position |-> position, timestamp |-> "", topics |-> <<>>]

\* speakers_dict is the list of its (name, passages) items in insertion order
_add_passage(speakers_dict, name, txt, position) ==
    IF \E i \in 1..Len(speakers_dict) : speakers_dict[i].name = name
    THEN [i \in 1..Len(speakers_dict) |->
            IF speakers_dict[i].name = name
            THEN [speakers_dict[i] EXCEPT !.passages = Append(@, Passage(name, txt, position))]
            ELSE speakers_dict[i]]
    ELSE Append(speakers_dict, [name |-> name, passages |-> <<Passage(name, txt, position)>>])

\* mutant: the buffer is flushed even when it is empty
FlushPassageAlways(speakers_dict, current_speaker, current_text, position) ==
    _add_passage(speakers_dict, current_speaker, join(" ", current_text), position)

\* the flush of the buffer, when it is not empty: "if current_text: _add_passage(...)"
FlushPassage(speakers_dict, current_speaker, current_text, position) ==
    IF current_text # <<>>
    THEN _add_passage(speakers_dict, current_speaker, join(" ", current_text), position)
    ELSE speakers_dict

RECURSIVE ScanLinesCountLabels(_, _, _, _, _, _)
\* position incremented at every label, also when the buffer was empty
ScanLinesCountLabels(lines, i, speakers_dict, current_speaker, current_text, position) ==
    IF i > Len(lines)
    THEN FlushPassage(speakers_dict, current_speaker, current_text, position)
    ELSE LET line == strip(lines[i])
         IN  IF SpeakerPatternMatch(line)
             THEN LET remaining == strip(SpeakerGroup2(line))
                  IN  ScanLinesCountLabels(lines, i + 1,
                                FlushPassage(speakers_dict, current_speaker, current_text, position),
                                strip(SpeakerGroup1(line)),
                                IF remaining # "" THEN <<remaining>> ELSE <<>>,
                                position + 1)
             ELSE ScanLinesCountLabels(lines, i + 1, speakers_dict, current_speaker,
                            IF line # "" THEN Append(current_text, line) ELSE current_text,
                            position)

RECURSIVE ScanLines(_, _, _, _, _, _)
\* the for loop of extract_speakers from line i on, and the final flush
ScanLines(lines, i, speakers_dict, current_speaker, current_text, position) ==
    IF i > Len(lines)
    THEN FlushPassage(speakers_dict, current_speaker, current_text, position)
    ELSE LET line == strip(lines[i])
         IN  IF SpeakerPatternMatch(line)
             THEN LET remaining == strip(SpeakerGroup2(line))
                  IN  ScanLines(lines, i + 1,
                                FlushPassage(speakers_dict, current_speaker, current_text, position),
                                strip(SpeakerGroup1(line)),
                                IF remaining # "" THEN <<remaining>> ELSE <<>>,
                                IF current_text # <<>> THEN position + 1 ELSE position)
             ELSE ScanLines(lines, i + 1, speakers_dict, current_speaker,
                            IF line # "" THEN Append(current_text, line) ELSE current_text,
                            position)

extract_speakers(clean_text) ==
    LET speakers_dict == ScanLines(split(clean_text, "\n"), 1, <<>>, "Unknown", <<>>, 0)
    IN  [i \in 1..Len(speakers_dict) |->
            [name |-> speakers_dict[i].name,
             passages |-> speakers_dict[i].passages,
             soul |-> NoSoul,
             skills |-> <<>>]]

(***************************************************************************)
(* Layer 2: the profile builder and the corpus analyzer.                   *)
(***************************************************************************)
\* the elements of a set of integers in increasing order
SortedSeq(S) == [k \in 1..Cardinality(S) |-> CHOOSE i \in S : Cardinality({j \in S : j < i}) = k - 1]

\* sorted(xs, key=..., reverse=True) and xs.sort(key=..., reverse=True), keys[i] the
\* key of xs[i]: descending and stable, so an item comes after every item with a
\* greater key and after the earlier items with its own key
SortedDescBy(xs, keys) ==
    LET n == Len(xs)
        rank(i) == Cardinality({j \in 1..n : keys[j] > keys[i]})
                   + Cardinality({j \in 1..(i - 1) : keys[j] = keys[i]}) + 1
    IN  [r \in 1..n |-> xs[CHOOSE i \in 1..n : rank(i) = r]]

RECURSIVE SumSeq(_)
SumSeq(ns) == IF ns = <<>> THEN 0 ELSE Head(ns) + SumSeq(Tail(ns))

\* ' '.join(p.text for p in speaker.passages)
PassageText(speaker) ==
    join(" ", [i \in 1..Len(speaker.passages) |-> speaker.passages[i].text])

\* len(s.split()): the runs of non-whitespace characters
WordCount(s) ==
    Cardinality({i \in 1..Len(s) : Ch(s, i) \notin SpaceSet /\ (i = 1 \/ Ch(s, i - 1) \in SpaceSet)})

\* generate_soul, reduced to the fields that do not go through floating point: the
\* voice classes and the signature phrases are written to soul.md and read by
\* nothing
generate_soul(speaker) ==
    [kind |-> "profile",
     name |-> speaker.name,
     passage_count |-> Len(speaker.passages),
     word_count |-> WordCount(PassageText(speaker))]

\* the domains dict of extract_skills, in declaration order
domains == <<
    [domain |-> "AI/ML", keywords |-> <<"ai", "machine learning", "neural", "model", "training", "inference", "llm", "gpt", "claude", "agent">>],
    [domain |-> "Infrastructure", keywords |-> <<"cloud", "server", "deploy", "kubernetes", "docker", "infrastructure", "compute", "gpu", "cluster">>],
    [domain |-> "Security", keywords |-> <<"security", "privacy", "encryption", "auth", "vulnerability", "trust", "permission">>],
    [domain |-> "Product", keywords |-> <<"user", "product", "feature", "experience", "interface", "design", "customer">>],
    [domain |-> "Business", keywords |-> <<"revenue", "market", "strategy", "growth", "enterprise", "startup", "investment", "valuation">>],
    [domain |-> "Open Source", keywords |-> <<"open source", "github", "community", "contributor", "fork", "repository", "license">>],
    [domain |-> "Education", keywords |-> <<"learn", "teach", "student", "course", "curriculum", "training", "workshop">>],
    [domain |-> "Governance", keywords |-> <<"policy", "regulation", "compliance", "governance", "ethics", "responsible">>] >>

\* sum(all_text.count(kw) for kw in keywords)
KeywordHits(all_text, keywords) ==
    SumSeq([k \in 1..Len(keywords) |-> count(all_text, keywords[k])])

\* "if hits >= 3"
SkillThreshold == 3
\* "'strong' if hits >= 10 else 'moderate'"
StrongThreshold == 10

\* mutant: a domain qualifies one hit early
QualifiesEarly(hits) == hits >= SkillThreshold - 1

Qualifies(hits) == hits >= SkillThreshold

extract_skills(speaker) ==
    LET all_text == lower(PassageText(speaker))
        scored == [d \in 1..Len(domains) |->
                      [domain |-> domains[d].domain,
                       strength |-> IF KeywordHits(all_text, domains[d].keywords) >= StrongThreshold
                                    THEN "strong" ELSE "moderate",
                       hit_count |-> KeywordHits(all_text, domains[d].keywords)]]
        QualifiesSkill(skill) == Qualifies(skill.hit_count)
        skills == SelectSeq(scored, QualifiesSkill)
    IN  SortedDescBy(skills, [i \in 1..Len(skills) |-> skills[i].hit_count])

\* re.findall(r'\b[a-z]{n,}\b', s): the runs of word characters that are made of
\* lower-case letters only and are at least n long, in order
Words(s, n) ==
    LET starts == {i \in 1..Len(s) : Ch(s, i) \in WordSet /\ (i = 1 \/ Ch(s, i - 1) \notin WordSet)}
        good == {i \in starts : /\ ClassRun(s, i, LowerSet) = ClassRun(s, i, WordSet)
                                /\ ClassRun(s, i, WordSet) >= n}
        at == SortedSeq(good)
    IN  [k \in 1..Len(at) |-> SubSeq(s, at[k], at[k] + ClassRun(s, at[k], WordSet) - 1)]

\* Counter(words).most_common(n): the distinct words in order of first occurrence,
\* sorted by count, descending and stable, cut to n
MostCommon(words, n) ==
    LET firsts == {i \in 1..Len(words) : \A j \in 1..(i - 1) : words[j] # words[i]}
        at == SortedSeq(firsts)
        items == [k \in 1..Len(at) |->
                     [word |-> words[at[k]],
                      cnt |-> Cardinality({j \in 1..Len(words) : words[j] = words[at[k]]})]]
        CountKey(item) == item.cnt
    IN  Take(SortedDescBy(items, [i \in 1..Len(items) |-> CountKey(items[i])]), n)

stop_words == {"that", "this", "with", "have", "from", "they", "been",
               "were", "their", "will", "would", "could", "should",
               "about", "which", "there", "when", "what", "your",
               "just", "like", "know", "think", "going", "really",
               "very", "also", "some", "more", "than", "then",
               "into", "other", "people", "because", "something"}

\* "word_freq.most_common(50)", "count >= 5" and "[:15]"
ThemePool == 50
ThemeMinCount == 5
ThemeTop == 15

\* ' '.join(p.text for s in speakers for p in s.passages)
CorpusText(speakers) ==
    LET nonempty == SelectSeq(speakers, LAMBDA sp : sp.passages # <<>>)
    IN  join(" ", [i \in 1..Len(nonempty) |-> PassageText(nonempty[i])])

detect_themes(speakers) ==
    LET all_text == lower(CorpusText(speakers))
        common == MostCommon(Words(all_text, 4), ThemePool)
        IsTheme(item) == item.word \notin stop_words /\ item.cnt >= ThemeMinCount
        kept == Take(SelectSeq(common, IsTheme), ThemeTop)
    IN  [k \in 1..Len(kept) |-> [theme |-> kept[k].word, frequency |-> kept[k].cnt]]

contrast_markers == <<"however", "disagree", "but actually", "on the contrary",
                      "not necessarily", "i would argue", "the problem with">>

\* the occurrences of the first marker only
ContrastsHowever(speaker) == count(lower(PassageText(speaker)), "however")

\* sum(text.count(m) for m in contrast_markers) over a speaker's lower-cased text
Contrasts(speaker) == KeywordHits(lower(PassageText(speaker)), contrast_markers)

\* "if s1_contrasts + s2_contrasts >= 3"
TensionThreshold == 3

TensionNote == "Potential disagreement detected via linguistic markers"

\* the inner loop started at the first speaker: every (i, j) with i # j
SpeakerPairsBothWays(n) ==
    LET codes == SortedSeq({c \in {i * (n + 1) + j : i \in 1..n, j \in 1..n} :
                               c \div (n + 1) # c % (n + 1)})
    IN  [k \in 1..Len(codes) |-> <<codes[k] \div (n + 1), codes[k] % (n + 1)>>]

\* the pairs (i, j), i < j, in the order of the two nested loops
SpeakerPairs(n) ==
    LET codes == SortedSeq({c \in {i * (n + 1) + j : i \in 1..n, j \in 1..n} :
                               c \div (n + 1) < c % (n + 1)})
    IN  [k \in 1..Len(codes) |-> <<codes[k] \div (n + 1), codes[k] % (n + 1)>>]

detect_tensions(speakers) ==
    LET Tense(pr) == Contrasts(speakers[pr[1]]) + Contrasts(speakers[pr[2]]) >= TensionThreshold
        hot == SelectSeq(SpeakerPairs(Len(speakers)), Tense)
    IN  [k \in 1..Len(hot) |->
            [speakers |-> <<speakers[hot[k][1]].name, speakers[hot[k][2]].name>>,
             contrast_signals |-> Contrasts(speakers[hot[k][1]]) + Contrasts(speakers[hot[k][2]]),
             note |-> TensionNote]]

(***************************************************************************)
(* Layer 3: route_question and format_response.  A score is the exact      *)
(* fraction [num, den]; within one call every score has the same           *)
(* denominator, so scores are ordered by their numerators.                 *)
(***************************************************************************)
\* set(re.findall(r'\b[a-z]{3,}\b', s.lower()))
WordsOf(s) == LET w == Words(lower(s), 3) IN {w[i] : i \in 1..Len(w)}

\* "results[:3]" and "passage_scores[:3]"
TopSpeakers == 3
TopPassages == 3

\* skill_bonus capped at 1.0, that is at five matching skills
SkillMatchesCapped(speaker, question_words) ==
    Min({5, Cardinality({k \in 1..Len(speaker.skills) :
                LET skill_words == split(lower(speaker.skills[k].domain), "/")
                IN  \E j \in 1..Len(skill_words) : skill_words[j] \in question_words})})

\* the number of the speaker's skills whose domain name, lower-cased and split on
\* '/', meets the question's words: skill_bonus is 0.2 times this
SkillMatches(speaker, question_words) ==
    Cardinality({k \in 1..Len(speaker.skills) :
        LET skill_words == split(lower(speaker.skills[k].domain), "/")
        IN  \E j \in 1..Len(skill_words) : skill_words[j] \in question_words})

\* "overlap = len(question_words & passage_words)"
Overlap(question_words, passage) == Cardinality(question_words \cap WordsOf(passage.text))

\* max(len(question_words), 1)
Denominator(question_words) ==
    IF Cardinality(question_words) > 1 THEN Cardinality(question_words) ELSE 1

\* passage_scores of a speaker after the sort: the passages with score > 0.1, where
\* score = overlap / max(len(question_words), 1), by score, descending
RankedPassages(question_words, speaker) ==
    LET Relevant(passage) == 10 * Overlap(question_words, passage) > Denominator(question_words)
        Scores(relevant) == [i \in 1..Len(relevant) |-> Overlap(question_words, relevant[i])]
        Sorted(relevant) == SortedDescBy(relevant, Scores(relevant))
    IN  Sorted(SelectSeq(speaker.passages, Relevant))

\* "passage_scores[:3]" left out: every relevant passage is returned
SpeakerResultAll(question_words, speaker, ranked) ==
    [speaker |-> speaker,
     score |-> [num |-> 70 * Overlap(question_words, ranked[1])
                        + 6 * SkillMatches(speaker, question_words)
                            * Denominator(question_words),
                den |-> 100 * Denominator(question_words)],
     passages |-> ranked]

\* the entry of results for a speaker with passage_scores ranked: the score is
\* top_score * 0.7 + skill_bonus * 0.3 = (70 overlap + 6 matches den) / (100 den)
SpeakerResult(question_words, speaker, ranked) ==
    [speaker |-> speaker,
     score |-> [num |-> 70 * Overlap(question_words, ranked[1])
                        + 6 * SkillMatches(speaker, question_words)
                            * Denominator(question_words),
                den |-> 100 * Denominator(question_words)],
     passages |-> Take(ranked, TopPassages)]

\* "results.sort(...)" left out of route_question: the first three in speaker order
RankResultsUnsorted(results) == Take(results, TopSpeakers)

\* "results.sort(key=lambda x: x[1], reverse=True); return results[:3]"
RankResults(results) ==
    Take(SortedDescBy(results, [i \in 1..Len(results) |-> results[i].score.num]), TopSpeakers)

\* the loop of route_question over the speakers that are not skipped and have a
\* relevant passage
ResultsOf(question_words, scored) ==
    [i \in 1..Len(scored) |->
        SpeakerResult(question_words, scored[i], RankedPassages(question_words, scored[i]))]

RouteWords(question_words, mind, target_speaker) ==
    LET \* "if target_speaker and target_speaker.lower() not in speaker.name.lower()"
        Skipped(speaker) ==
            target_speaker # "" /\ ~contains(lower(speaker.name), lower(target_speaker))
        Scored(speaker) ==
            ~Skipped(speaker) /\ RankedPassages(question_words, speaker) # <<>>
    IN  RankResults(ResultsOf(question_words, SelectSeq(mind.speakers, Scored)))

route_question(question, mind, target_speaker) ==
    RouteWords(WordsOf(question), mind, target_speaker)

NoRelevantContent == "No speakers found with relevant content for this question."

\* "passages[:2]" and "p.text[:300]"
QuotedPassages == 2
QuoteLen == 300

\* format_response: per ranked speaker the heading (name, score) and the quotes
\* (tag, text cut to 300 characters, ellipsis when cut)
format_response(results, question) ==
    IF results = <<>> THEN [kind |-> "message", message |-> NoRelevantContent]
    ELSE [kind |-> "answer",
          parts |-> [i \in 1..Len(results) |->
              [name |-> results[i].speaker.name,
               score |-> results[i].score,
               quotes |-> LET ps == Take(results[i].passages, QuotedPassages)
                          IN  [j \in 1..Len(ps) |->
                                  [timestamp |-> ps[j].timestamp,
                                   position |-> ps[j].position,
                                   text |-> Take(ps[j].text, QuoteLen)
                                            \o (IF Len(ps[j].text) > QuoteLen THEN "..." ELSE "")]]]]]

(***************************************************************************)
(* The file system under MINDS_DIR: fs = [dirs, files].  A path is the     *)
(* sequence of its names below MINDS_DIR; dirs is the set of directories,  *)
(* files maps each file's path to what was written to it.  A JSON file is  *)
(* its value (json.loads(json.dumps(v)) = v for the dicts, lists, strings  *)
(* and ints written here); a markdown file, which nothing parses, is the   *)
(* record of what it was formatted from.                                   *)
(***************************************************************************)
Root == <<>>

\* dir / name: pathlib drops an empty name, so dir / "" is dir
PathJoin(dir, name) == IF name = "" THEN dir ELSE Append(dir, name)

IsUnder(path, dir) == Len(path) >= Len(dir) /\ SubSeq(path, 1, Len(dir)) = dir

exists(fs, path) == path \in fs.dirs \/ path \in DOMAIN fs.files
is_dir(fs, path) == path \in fs.dirs
is_file(fs, path) == path \in DOMAIN fs.files

\* path.mkdir(parents=True, exist_ok=True)
mkdir(fs, path) ==
    [dirs |-> fs.dirs \cup {SubSeq(path, 1, k) : k \in 0..Len(path)}, files |-> fs.files]

\* path.write_text(content)
write_text(fs, path, content) ==
    [dirs |-> fs.dirs,
     files |-> [q \in DOMAIN fs.files \cup {path} |-> IF q = path THEN content ELSE fs.files[q]]]

\* shutil.rmtree(dir)
rmtree(fs, dir) ==
    [dirs |-> {d \in fs.dirs : ~IsUnder(d, dir)},
     files |-> [q \in {f \in DOMAIN fs.files : ~IsUnder(f, dir)} |-> fs.files[q]]]

\* get_minds_dir(): MINDS_DIR.mkdir(parents=True, exist_ok=True)
get_minds_dir(fs) == mkdir(fs, Root)

\* the characters of the model in code point order
CodeOrder == "\n !'-./0123456789:>?ABCDEFGHIJKLMNOPQRSTUVWXYZ_abcdefghijklmnopqrstuvwxyz"

Code(c) == CHOOSE i \in 1..Len(CodeOrder) : Ch(CodeOrder, i) = c

\* a < b for two str
StrLess(a, b) ==
    LET n == IF Len(a) < Len(b) THEN Len(a) ELSE Len(b)
        diff == {i \in 1..n : Ch(a, i) # Ch(b, i)}
    IN  IF diff = {} THEN Len(a) < Len(b)
        ELSE Code(Ch(a, Min(diff))) < Code(Ch(b, Min(diff)))

\* sorted(dir.iterdir()): the names in dir, in str order
SortedNames(fs, dir) ==
    LET names == {q[Len(q)] : q \in {q \in fs.dirs \cup DOMAIN fs.files :
                                        Len(q) = Len(dir) + 1 /\ IsUnder(q, dir)}}
    IN  [k \in 1..Cardinality(names) |->
            CHOOSE a \in names : Cardinality({b \in names : StrLess(b, a)}) = k - 1]

\* s.replace('-', ' ')
HyphensToSpaces(s) ==
    Concat([i \in 1..Len(s) |-> IF Ch(s, i) = "-" THEN " " ELSE Ch(s, i)], 1, Len(s))

\* str.title(): a letter is upper-cased after a non-letter (or at the start) and
\* lower-cased after a letter
title(s) ==
    Concat([i \in 1..Len(s) |->
               IF i > 1 /\ Ch(s, i - 1) \in UpperSet \cup LowerSet THEN LowerCh(Ch(s, i)) ELSE UpperCh(Ch(s, i))],
           1, Len(s))

(***************************************************************************)
(* Persistence: save_mind, load_mind, list_minds.  A ConferenceMind is     *)
(* [name, source_file, speakers, themes, tensions, raw_transcript,         *)
(* clean_transcript]; its created timestamp (datetime.now()) is carried    *)
(* into meta.json and back and read by no operation, and is left out.      *)
(***************************************************************************)
SoulDoc(speaker) == [doc |-> "soul", name |-> speaker.name, soul |-> speaker.soul]
SkillsDoc(speaker) == [doc |-> "skills", name |-> speaker.name, skills |-> speaker.skills]

SummitDoc(mind) ==
    [doc |-> "summit",
     name |-> mind.name,
     speaker_count |-> Len(mind.speakers),
     themes |-> Take(mind.themes, 10),
     tensions |-> mind.tensions,
     speakers |-> [i \in 1..Len(mind.speakers) |->
                     [name |-> mind.speakers[i].name,
                      passages |-> Len(mind.speakers[i].passages),
                      domains |-> LET top == Take(mind.speakers[i].skills, 3)
                                  IN  [k \in 1..Len(top) |-> top[k].domain]]]]

MetaOf(mind) ==
    [name |-> mind.name,
     source_file |-> mind.source_file,
     speaker_count |-> Len(mind.speakers),
     themes |-> mind.themes,
     tensions |-> mind.tensions]

\* the body of "for speaker in mind.speakers" in save_mind
SaveSpeaker(fs, speakers_dir, speaker) ==
    LET speaker_dir == PathJoin(speakers_dir, slugify(speaker.name))
        fs1 == mkdir(fs, speaker_dir)
        fs2 == write_text(fs1, Append(speaker_dir, "soul.md"), SoulDoc(speaker))
        fs3 == write_text(fs2, Append(speaker_dir, "skills.md"), SkillsDoc(speaker))
    IN  write_text(fs3, Append(speaker_dir, "passages.json"), speaker.passages)

RECURSIVE SaveSpeakers(_, _, _, _)
SaveSpeakers(fs, speakers_dir, speakers, i) ==
    IF i > Len(speakers) THEN fs
    ELSE SaveSpeakers(SaveSpeaker(fs, speakers_dir, speakers[i]), speakers_dir, speakers, i + 1)

save_mind(fs, mind) ==
    LET conf_dir == PathJoin(Root, slugify(mind.name))
        fs1 == mkdir(get_minds_dir(fs), conf_dir)
        fs2 == write_text(fs1, Append(conf_dir, "meta.json"), MetaOf(mind))
        fs3 == write_text(fs2, Append(conf_dir, "transcript_raw.md"), mind.raw_transcript)
        fs4 == write_text(fs3, Append(conf_dir, "transcript_clean.md"), mind.clean_transcript)
        fs5 == SaveSpeakers(fs4, Append(conf_dir, "speakers"), mind.speakers, 1)
        fs6 == write_text(fs5, Append(conf_dir, "themes.json"), mind.themes)
        fs7 == write_text(fs6, Append(conf_dir, "tensions.json"), mind.tensions)
    IN  write_text(fs7, Append(conf_dir, "summit_mind.md"), SummitDoc(mind))

\* the body of "for speaker_dir in sorted(speakers_dir.iterdir())" in load_mind, for
\* a directory: the name comes from the directory name, the skills are not read
LoadSpeaker(fs, speaker_dir) ==
    [name |-> title(HyphensToSpaces(speaker_dir[Len(speaker_dir)])),
     passages |-> IF exists(fs, Append(speaker_dir, "passages.json"))
                  THEN fs.files[Append(speaker_dir, "passages.json")] ELSE <<>>,
     soul |-> IF exists(fs, Append(speaker_dir, "soul.md"))
              THEN [kind |-> "raw", raw |-> fs.files[Append(speaker_dir, "soul.md")]]
              ELSE NoSoul,
     skills |-> <<>>]

LoadSpeakers(fs, speakers_dir) ==
    IF ~exists(fs, speakers_dir) THEN <<>>
    ELSE LET names == SortedNames(fs, speakers_dir)
             IsSpeakerDir(name) == is_dir(fs, Append(speakers_dir, name))
             found == SelectSeq(names, IsSpeakerDir)
         IN  [i \in 1..Len(found) |-> LoadSpeaker(fs, Append(speakers_dir, found[i]))]

\* load_mind on the file system fs: [status |-> "none"] is None, "raise" is the
\* FileNotFoundError of reading a meta.json that is not there
load_mind(fs, name) ==
    LET conf_dir == PathJoin(Root, slugify(name))
    IN  IF ~exists(get_minds_dir(fs), conf_dir) THEN [status |-> "none"]
        ELSE IF ~is_file(fs, Append(conf_dir, "meta.json"))
        THEN [status |-> "raise", error |-> "FileNotFoundError"]
        ELSE LET meta == fs.files[Append(conf_dir, "meta.json")]
             IN  [status |-> "ok",
                  mind |-> [name |-> meta.name,
                            source_file |-> meta.source_file,
                            themes |-> meta.themes,
                            tensions |-> meta.tensions,
                            raw_transcript |->
                                IF exists(fs, Append(conf_dir, "transcript_raw.md"))
                                THEN fs.files[Append(conf_dir, "transcript_raw.md")] ELSE "",
                            clean_transcript |->
                                IF exists(fs, Append(conf_dir, "transcript_clean.md"))
                                THEN fs.files[Append(conf_dir, "transcript_clean.md")] ELSE "",
                            speakers |-> LoadSpeakers(fs, Append(conf_dir, "speakers"))]]

\* list_minds: the meta.json of every directory of MINDS_DIR that holds one
list_minds(fs) ==
    LET names == SortedNames(get_minds_dir(fs), Root)
        HasMeta(name) == is_dir(fs, <<name>>) /\ exists(fs, <<name, "meta.json">>)
        found == SelectSeq(names, HasMeta)
    IN  [i \in 1..Len(found) |-> fs.files[<<found[i], "meta.json">>]]

\* "for speaker in speakers: generate_soul(speaker); extract_skills(speaker)"
BuildProfile(speaker) ==
    [speaker EXCEPT !.soul = generate_soul(speaker), !.skills = extract_skills(speaker)]

Profiled(speakers) == [i \in 1..Len(speakers) |-> BuildProfile(speakers[i])]

\* ingest after the profiles: themes and tensions
Patterns(clean, speakers) ==
    [clean |-> clean,
     speakers |-> speakers,
     themes |-> detect_themes(speakers),
     tensions |-> detect_tensions(speakers)]

\* ingest from the clean text on: speakers, profiles, themes and tensions
AnalyzeClean(clean) == Patterns(clean, Profiled(extract_speakers(clean)))

\* the pipeline of ingest up to the ConferenceMind it saves
Analyze(transcript) == AnalyzeClean(clean_transcript(transcript, detect_format(transcript)))

\* ingest's ConferenceMind for a non-empty name (an empty name is replaced by one
\* made from the clock, which the model does not have)
BuildMind(analysis, transcript, name, source_file) ==
    [name |-> name,
     source_file |-> source_file,
     speakers |-> analysis.speakers,
     themes |-> analysis.themes,
     tensions |-> analysis.tensions,
     raw_transcript |-> transcript,
     clean_transcript |-> analysis.clean]

\* ask: load_mind, then route_question and format_response
NotFound(conference_name) == [kind |-> "not_found", conference |-> conference_name]

ask(fs, question, conference_name, speaker_name) ==
    LET loaded == load_mind(fs, conference_name)
    IN  IF loaded.status = "raise" THEN [kind |-> "raise", error |-> loaded.error]
        ELSE IF loaded.status = "none" THEN NotFound(conference_name)
        ELSE format_response(route_question(question, loaded.mind, speaker_name), question)

(***************************************************************************)
(* SpecClean: clean_transcript applied to a text, then to its own output.  *)
(* The texts are the concatenations of at most MaxPieces pieces.           *)
(***************************************************************************)
MaxPieces == 3

Pieces == {"0:00", ":00", " ", "a", "\n", "1", "-->", "WEBVTT"}

RECURSIVE TextsUpTo(_)
TextsUpTo(n) ==
    IF n = 0 THEN {""}
    ELSE LET shorter == TextsUpTo(n - 1)
         IN  shorter \cup {t \o p : t \in shorter, p \in Pieces}

InputTexts == TextsUpTo(MaxPieces)

\* the variables of the other specifications, at rest
CleanIdle ==
    /\ text = "" /\ fmt = "raw" /\ cleaned = "" /\ recleaned = "" /\ pcClean = "idle"

ExtractIdle ==
    /\ ctext = "" /\ xspeakers = <<>> /\ pcExtract = "idle"

EmptyDisk == [dirs |-> {}, files |-> <<>>]

StoreIdle ==
    /\ disk = EmptyDisk
    /\ op = [kind |-> "none"]
    /\ ret = [status |-> "none"]
    /\ lastIngest = [done |-> FALSE]
    /\ deleted = {}
    /\ plain = TRUE
    /\ changes = 0

InitClean ==
    /\ text \in InputTexts
    /\ fmt \in Formats
    /\ cleaned = ""
    /\ recleaned = ""
    /\ pcClean = "input"
    /\ ExtractIdle
    /\ StoreIdle

Normalize ==
    /\ pcClean = "input"
    /\ cleaned' = clean_transcript(text, fmt)
    /\ pcClean' = "cleaned"
    /\ UNCHANGED <<text, fmt, recleaned, extractVars, storeVars>>

Renormalize ==
    /\ pcClean = "cleaned"
    /\ recleaned' = clean_transcript(cleaned, fmt)
    /\ pcClean' = "recleaned"
    /\ UNCHANGED <<text, fmt, cleaned, extractVars, storeVars>>

NextClean == Normalize \/ Renormalize

SpecClean == InitClean /\ [][NextClean]_vars

(***************************************************************************)
(* SpecExtract: extract_speakers on a clean text, then generate_soul and   *)
(* extract_skills on every speaker, as ingest runs them.  The clean texts  *)
(* are at most MaxLines lines, each stripped and non-blank as               *)
(* clean_transcript leaves them.                                           *)
(***************************************************************************)
MaxLines == 3

AliceLine == "Alice: I love kubernetes and docker."
BobLine == "Bob: kubernetes is overrated."

TranscriptLines ==
    {AliceLine, BobLine, "Alice:", "and more", "Dr. O'Neil: cloud server deploy"}

RECURSIVE LineSeqsUpTo(_)
LineSeqsUpTo(n) ==
    IF n = 0 THEN {<<>>}
    ELSE LET shorter == LineSeqsUpTo(n - 1)
         IN  shorter \cup {Append(ls, l) : ls \in shorter, l \in TranscriptLines}

CleanTexts == {join("\n", ls) : ls \in LineSeqsUpTo(MaxLines)}

InitExtract ==
    /\ ctext \in CleanTexts
    /\ xspeakers = <<>>
    /\ pcExtract = "text"
    /\ CleanIdle
    /\ StoreIdle

ExtractSpeakers ==
    /\ pcExtract = "text"
    /\ xspeakers' = extract_speakers(ctext)
    /\ pcExtract' = "segmented"
    /\ UNCHANGED <<ctext, cleanVars, storeVars>>

BuildProfiles ==
    /\ pcExtract = "segmented"
    /\ xspeakers' = Profiled(xspeakers)
    /\ pcExtract' = "profiled"
    /\ UNCHANGED <<ctext, cleanVars, storeVars>>

NextExtract == ExtractSpeakers \/ BuildProfiles

SpecExtract == InitExtract /\ [][NextExtract]_vars

(***************************************************************************)
(* Spec: the conference store under ingest, delete-by-name, load_mind,     *)
(* ask, list_minds and the ask handlers' default conference.  Every call   *)
(* is one step (no call suspends).  A behaviour makes at most MaxChanges    *)
(* ingest and delete calls, and any number of reads.                       *)
(***************************************************************************)
MaxChanges == 2

AliceBobTranscript == "Alice: trust privacy security\nBob: hi there"
CarolTranscript == "Carol: security matters"
BlankTranscript == " \n "

Transcripts == {AliceBobTranscript, CarolTranscript, BlankTranscript}

\* display names: one with a plain slug, one whose slug is empty, and one whose
\* slug is the name of the directory save_mind keeps the speakers in
Names == {"AI Summit!!", "!!!", "Speakers"}

Questions == {"What about security?"}

\* speaker_name of ask: "" stands for None
Targets == {""}

\* the transcripts of the round trips of SpecRound: two labeled speakers of whom
\* one has the passage nearest the question; two labeled speakers with three
\* contrast markers, without and with text before the first label; speaker names
\* with periods and inner capitals; four speakers, one with five passages;
\* a speaker with six skill domains whose names are words of a question
RoundTranscripts ==
    {"Alice: alpha\nBob: beta gamma delta\nAlice: beta\nAlice: gamma",
     "Alice: however however i would argue\nBob: hi there",
     "intro\nAlice: however however i would argue\nBob: hi there",
     "Dr. Who: one\nDr Who: two\nMcCoy: three",
     "Ann: security one\nBob: security two\nCy: security\nDee: security trust\nAnn: security\nAnn: security trust privacy\nAnn: trust\nAnn: privacy",
     "Zoe: security privacy trust product user feature business revenue market strategy education learn teach student governance policy ethics infrastructure cloud server\nYan: security privacy trust"}

RoundName == "Conf"

RoundQuestions ==
    {"alpha beta gamma", "beta gamma delta", "security trust privacy",
     "security product business education governance infrastructure"}

RoundTargets == {"", "ann"}

\* Analyze on every transcript of the model, computed once
Analyzed == [t \in Transcripts \cup RoundTranscripts |-> Analyze(t)]

ConfDir(name) == PathJoin(Root, slugify(name))

\* a metadata record is stored at the storage location of name
Stored(fs, name) == is_file(fs, Append(ConfDir(name), "meta.json"))

Init ==
    /\ disk = EmptyDisk
    /\ op = [kind |-> "none"]
    /\ ret = [status |-> "none"]
    /\ lastIngest = [done |-> FALSE]
    /\ deleted = {}
    /\ plain = TRUE
    /\ changes = 0
    /\ CleanIdle
    /\ ExtractIdle

\* core.ingest(transcript, name): the pipeline, then save_mind
Ingest(transcript, name) ==
    LET mind == BuildMind(Analyzed[transcript], transcript, name, "")
    IN  /\ changes < MaxChanges
        /\ changes' = changes + 1
        /\ disk' = save_mind(disk, mind)
        /\ op' = [kind |-> "ingest", name |-> name, transcript |-> transcript]
        /\ ret' = [status |-> "ok", mind |-> mind]
        /\ lastIngest' = [done |-> TRUE, name |-> name, mind |-> mind,
                          replaced |-> Stored(disk, name)
                                       /\ disk.files[Append(ConfDir(name), "meta.json")].name = name,
                          intact |-> TRUE]
        /\ deleted' = deleted \ {slugify(name)}
        /\ plain' = (plain /\ slugify(name) # "" /\ ~Stored(disk, name))
        /\ UNCHANGED <<cleanVars, extractVars>>

\* cli.cmd_ingest with --file and --name: an empty transcript exits before ingest
CmdIngest(transcript, name) ==
    IF strip(transcript) = ""
    THEN /\ op' = [kind |-> "cmd_ingest", name |-> name, transcript |-> transcript]
         /\ ret' = [status |-> "exit", message |-> "Error: Empty transcript"]
         /\ UNCHANGED <<disk, lastIngest, deleted, plain, changes, cleanVars, extractVars>>
    ELSE Ingest(transcript, name)

\* cli.cmd_delete and mcp_server.tool_delete
Delete(name) ==
    LET fs == get_minds_dir(disk)
        conf_dir == ConfDir(name)
    IN  /\ changes < MaxChanges
        /\ changes' = changes + 1
        /\ op' = [kind |-> "delete", name |-> name]
        /\ IF ~exists(fs, conf_dir)
           THEN /\ disk' = fs
                /\ ret' = [status |-> "not_found"]
                /\ UNCHANGED <<lastIngest, deleted, plain>>
           ELSE /\ disk' = rmtree(fs, conf_dir)
                /\ ret' = [status |-> "deleted"]
                /\ lastIngest' = IF lastIngest.done
                                 THEN [lastIngest EXCEPT !.intact = FALSE] ELSE lastIngest
                /\ deleted' = IF Stored(disk, name) THEN deleted \cup {slugify(name)} ELSE deleted
                /\ plain' = FALSE
        /\ UNCHANGED <<cleanVars, extractVars>>

LoadMind(name) ==
    /\ op' = [kind |-> "load", name |-> name]
    /\ ret' = load_mind(disk, name)
    /\ disk' = get_minds_dir(disk)
    /\ UNCHANGED <<lastIngest, deleted, plain, changes, cleanVars, extractVars>>

Ask(question, name, target) ==
    /\ op' = [kind |-> "ask", name |-> name, question |-> question, speaker |-> target]
    /\ ret' = ask(disk, question, name, target)
    /\ disk' = get_minds_dir(disk)
    /\ UNCHANGED <<lastIngest, deleted, plain, changes, cleanVars, extractVars>>

ListMinds ==
    /\ op' = [kind |-> "list"]
    /\ ret' = [status |-> "ok", minds |-> list_minds(disk)]
    /\ disk' = get_minds_dir(disk)
    /\ UNCHANGED <<lastIngest, deleted, plain, changes, cleanVars, extractVars>>

\* the conference cmd_ask and tool_ask take when none is given: minds[-1]['name']
DefaultConference(minds) == minds[Len(minds)].name

\* cli.cmd_ask and mcp_server.tool_ask with no conference given
CmdAsk(question, target) ==
    LET minds == list_minds(disk)
    IN  /\ op' = [kind |-> "cmd_ask", question |-> question, speaker |-> target]
        /\ ret' = IF minds = <<>> THEN [kind |-> "no_conferences"]
                  ELSE [kind |-> "asked",
                        conference |-> DefaultConference(minds),
                        response |-> ask(disk, question, DefaultConference(minds), target)]
        /\ disk' = get_minds_dir(disk)
        /\ UNCHANGED <<lastIngest, deleted, plain, changes, cleanVars, extractVars>>

Next ==
    \/ \E t \in Transcripts, n \in Names : Ingest(t, n)
    \/ \E t \in Transcripts, n \in Names : CmdIngest(t, n)
    \/ \E n \in Names : Delete(n)
    \/ \E n \in Names : LoadMind(n)
    \/ \E q \in Questions, n \in Names, sp \in Targets : Ask(q, n, sp)
    \/ ListMinds
    \/ \E q \in Questions, sp \in Targets : CmdAsk(q, sp)

Spec == Init /\ [][Next]_vars

(***************************************************************************)
(* SpecRound: round trips of one conference: ingest (and re-ingest) under  *)
(* one name, then load_mind, ask, or route_question on the mind ingest     *)
(* returned.                                                               *)
(***************************************************************************)

\* route_question(question, mind, target_speaker) on the mind the last ingest returned
Route(question, target) ==
    /\ lastIngest.done
    /\ op' = [kind |-> "route", question |-> question, speaker |-> target]
    /\ ret' = [kind |-> "routed",
               results |-> route_question(question, lastIngest.mind, target)]
    /\ UNCHANGED <<disk, lastIngest, deleted, plain, changes, cleanVars, extractVars>>

NextRound ==
    \/ \E t \in RoundTranscripts : Ingest(t, RoundName)
    \/ LoadMind(RoundName)
    \/ \E q \in RoundQuestions, sp \in RoundTargets : Ask(q, RoundName, sp)
    \/ \E q \in RoundQuestions, sp \in RoundTargets : Route(q, sp)

SpecRound == Init /\ [][NextRound]_vars

(***************************************************************************)
(* SpecSlug: slugify applied to a display name, then to its own output (a  *)
(* caller that passes a slug where a name is expected, as load_mind and    *)
(* ask allow).  The names are the concatenations of at most MaxNameParts   *)
(* pieces.                                                                 *)
(***************************************************************************)
MaxNameParts == 4

NamePieces == {"AI", "ai", "Summit", "summit", " ", "!!", "-", "_"}

RECURSIVE NamesUpTo(_)
NamesUpTo(n) ==
    IF n = 0 THEN {""}
    ELSE LET shorter == NamesUpTo(n - 1)
         IN  shorter \cup {t \o p : t \in shorter, p \in NamePieces}

DisplayNames == NamesUpTo(MaxNameParts)

InitSlug ==
    /\ disk = EmptyDisk
    /\ op \in {[kind |-> "name", name |-> x] : x \in DisplayNames}
    /\ ret = [status |-> "none"]
    /\ lastIngest = [done |-> FALSE]
    /\ deleted = {}
    /\ plain = TRUE
    /\ changes = 0
    /\ CleanIdle
    /\ ExtractIdle

Slugify ==
    /\ op.kind = "name"
    /\ op' = [kind |-> "slugify", name |-> op.name]
    /\ ret' = [status |-> "ok", slug |-> slugify(op.name)]
    /\ UNCHANGED <<disk, lastIngest, deleted, plain, changes, cleanVars, extractVars>>

Reslugify ==
    /\ op.kind = "slugify"
    /\ op' = [kind |-> "reslugify", name |-> op.name, slug |-> ret.slug]
    /\ ret' = [status |-> "ok", slug |-> slugify(ret.slug)]
    /\ UNCHANGED <<disk, lastIngest, deleted, plain, changes, cleanVars, extractVars>>

NextSlug == Slugify \/ Reslugify

SpecSlug == InitSlug /\ [][NextSlug]_vars

(***************************************************************************)
(* SpecDetect: the head of the ingest pipeline, detect_format on a text    *)
(* and then clean_transcript as the detected format.  The texts are at     *)
(* most MaxDetectLines lines, each one of DetectLines.                     *)
(***************************************************************************)
MaxDetectLines == 4

DetectLines == {"1", "0:00 --> 0:01", "WEBVTT", "0:00 a", "Al: a", "a", ""}

DetectTexts ==
    {join("\n", ls) : ls \in UNION {[1..n -> DetectLines] : n \in 0..MaxDetectLines}}

\* fmt = "" : detect_format has not run yet
InitDetect ==
    /\ text \in DetectTexts
    /\ fmt = ""
    /\ cleaned = ""
    /\ recleaned = ""
    /\ pcClean = "input"
    /\ ExtractIdle
    /\ StoreIdle

Detect ==
    /\ pcClean = "input"
    /\ fmt = ""
    /\ fmt' = detect_format(text)
    /\ UNCHANGED <<text, cleaned, recleaned, pcClean, extractVars, storeVars>>

NextDetect == Detect \/ (fmt # "" /\ Normalize)

SpecDetect == InitDetect /\ [][NextDetect]_vars

(***************************************************************************)
(* SpecThemes: extract_speakers on a two-speaker transcript, then          *)
(* detect_themes on its speakers.  A transcript is some rounds, each a     *)
(* line listing the same words once (stop words first, then terms), and a  *)
(* last line repeating the last term twice.                                *)
(***************************************************************************)
MaxTerms == 16
MaxRounds == 6

\* how many of the stop words a round lists
StopCounts == {0, Cardinality(stop_words) - 1, Cardinality(stop_words)}

\* how many distinct terms a round lists
TermCounts == {0} \cup ((MaxTerms - 3)..MaxTerms)

StopSeq ==
    [k \in 1..Cardinality(stop_words) |->
        CHOOSE a \in stop_words : Cardinality({b \in stop_words : StrLess(b, a)}) = k - 1]

TermWord(k) == "term" \o Ch(LowerChars, k)

RoundLine(s, q) ==
    join(" ", [k \in 1..(s + q) |-> IF k <= s THEN StopSeq[k] ELSE TermWord(k - s)])

ThemeText(s, q, r) ==
    join("\n", [i \in 1..(r + 1) |->
        IF i <= r THEN (IF i % 2 = 1 THEN "Ann: " ELSE "Bob: ") \o RoundLine(s, q)
        ELSE LET last == IF q = 0 THEN 1 ELSE q
             IN  "Ann: " \o TermWord(last) \o " " \o TermWord(last)])

ThemeTexts == {ThemeText(s, q, r) : s \in StopCounts, q \in TermCounts, r \in (MaxRounds - 2)..MaxRounds}

InitThemes ==
    /\ ctext \in ThemeTexts
    /\ xspeakers = <<>>
    /\ pcExtract = "text"
    /\ CleanIdle
    /\ StoreIdle

\* themes = detect_themes(speakers), as ingest calls it
DetectThemes ==
    /\ pcExtract = "segmented"
    /\ op' = [kind |-> "detect_themes"]
    /\ ret' = [status |-> "ok", themes |-> detect_themes(xspeakers)]
    /\ pcExtract' = "themed"
    /\ UNCHANGED <<ctext, xspeakers, disk, lastIngest, deleted, plain, changes, cleanVars>>

NextThemes == ExtractSpeakers \/ DetectThemes

SpecThemes == InitThemes /\ [][NextThemes]_vars

(***************************************************************************)
(* The claims.                                                             *)
(***************************************************************************)

SpeakersNamed(speakers, name) == {i \in 1..Len(speakers) : speakers[i].name = name}

\* the names of a speaker list, as a set
SpeakerNames(speakers) == {speakers[i].name : i \in 1..Len(speakers)}

\* the last call was load_mind on the conference of the last ingest, and no delete
\* has removed anything since that ingest
LoadedLastIngest ==
    /\ op.kind = "load"
    /\ lastIngest.done
    /\ lastIngest.intact
    /\ op.name = lastIngest.name

\* C1: re-ingest under the same conference name is last-write-wins with no merge:
\* after ingest(t1, name) then ingest(t2, name), load_mind(name) returns a mind whose
\* speakers are exactly the speakers extracted from t2.
C1_LastWriteWins ==
    (LoadedLastIngest /\ lastIngest.replaced) =>
        /\ ret.status = "ok"
        /\ SpeakerNames(ret.mind.speakers) = SpeakerNames(lastIngest.mind.speakers)

\* C2: load_mind(name) returns None and does not raise whenever no metadata record
\* is stored for slugify(name), in every store state ingest and delete reach.
C2_AbsentNeverRaises ==
    (op.kind = "load" /\ ~Stored(disk, op.name)) => ret.status = "none"

\* C3: normalisation is idempotent for every format: cleaning the output of
\* clean_transcript again, as the same format, gives that output back.
C3_Idempotent == pcClean = "recleaned" => recleaned = cleaned

\* C4: an ingest call whose transcript is blank or whitespace-only is rejected before
\* the pipeline runs: it produces no ConferenceMind and leaves the store unchanged.
C4_BlankIngestRejected ==
    [][(op'.kind = "ingest" /\ strip(op'.transcript) = "") =>
           (ret'.status # "ok" /\ disk'.files = disk.files)]_vars

\* C5: with no conference given, the ask handlers answer from the most recently
\* ingested conference: after ingests under distinct slugs, the default conference is
\* the one ingested last.
C5_DefaultIsMostRecent ==
    (op.kind = "cmd_ask" /\ plain /\ lastIngest.done) =>
        /\ ret.kind = "asked"
        /\ ret.conference = lastIngest.name

\* C6: load_mind gives every speaker of a mind M returned by ingest the ranked skill
\* list it has in M, so ask(question, M.name) answers as route_question(question, M).
C6_LoadKeepsSkills ==
    /\ (LoadedLastIngest /\ ~lastIngest.replaced /\ ret.status = "ok") =>
           \A i \in 1..Len(ret.mind.speakers) :
               \A j \in SpeakersNamed(lastIngest.mind.speakers, ret.mind.speakers[i].name) :
                   ret.mind.speakers[i].skills = lastIngest.mind.speakers[j].skills
    /\ (/\ op.kind = "ask"
        /\ lastIngest.done /\ lastIngest.intact /\ ~lastIngest.replaced
        /\ op.name = lastIngest.name
        /\ ret.kind # "raise") =>
           ret = format_response(route_question(op.question, lastIngest.mind, op.speaker),
                                 op.question)

\* the display names of the records list_minds returns
ListedNames(fs) == {list_minds(fs)[i].name : i \in 1..Len(list_minds(fs))}

\* C7: after ingest(t, name) with a non-empty display name the conference is
\* retrievable by that name: load_mind(name) is not None, ask(q, name) is not the
\* not-found message, and list_minds() has a record with that name.
C7_RetrievableAfterIngest ==
    (op.kind = "ingest" /\ op.name # "") =>
        /\ load_mind(disk, op.name).status # "none"
        /\ \A q \in Questions : ask(disk, q, op.name, "") # NotFound(op.name)
        /\ op.name \in ListedNames(disk)

\* C8: after delete(name) of a stored conference and until the next ingest under the
\* same slug, load_mind(name) returns None, ask on it returns the not-found message,
\* and list_minds() has no record for it.
C8_DeletedIsAbsent ==
    /\ (op.kind = "load" /\ slugify(op.name) \in deleted) => ret.status = "none"
    /\ (op.kind = "ask" /\ slugify(op.name) \in deleted) => ret = NotFound(op.name)
    /\ op.kind = "list" =>
           \A i \in 1..Len(ret.minds) : slugify(ret.minds[i].name) \notin deleted

\* the lines of the clean text under segmentation, as the loop reads them
SegLines == StripAll(split(ctext, "\n"))
IsLabelLine(i) == SpeakerPatternMatch(SegLines[i])
IsTextLine(i) == SegLines[i] # "" /\ ~IsLabelLine(i)
LabelLines == {i \in 1..Len(SegLines) : IsLabelLine(i)}

\* non-blank unlabeled text precedes the first label
LeadingText == \E j \in 1..Len(SegLines) : IsTextLine(j) /\ \A k \in 1..j : ~IsLabelLine(k)

\* label line i has text: after its colon, or on a line before the next label
LabelHasText(i) ==
    \/ strip(SpeakerGroup2(SegLines[i])) # ""
    \/ \E j \in (i + 1)..Len(SegLines) : IsTextLine(j) /\ \A k \in (i + 1)..j : ~IsLabelLine(k)

TotalPassages == SumSeq([i \in 1..Len(xspeakers) |-> Len(xspeakers[i].passages)])

\* C9 as stated: the passages emitted are as many as the label lines, plus one for
\* leading unlabeled text.
C9_CountsEveryLabel ==
    pcExtract \in {"segmented", "profiled"} =>
        TotalPassages = Cardinality(LabelLines) + (IF LeadingText THEN 1 ELSE 0)

\* C9, amended: the passages emitted are as many as the label lines that have text
\* (after the colon or on following unlabeled lines), plus one for leading unlabeled
\* text; a label with no text before the next label or the end emits no passage.
C9_CountsLabelsWithText ==
    pcExtract \in {"segmented", "profiled"} =>
        TotalPassages = Cardinality({i \in LabelLines : LabelHasText(i)})
                        + (IF LeadingText THEN 1 ELSE 0)

\* a segmented text with a label that has no text, among passages that were emitted
C9_Witness ==
    /\ pcExtract = "segmented"
    /\ \E i \in LabelLines : ~LabelHasText(i)
    /\ TotalPassages > 0

AliceBobText == AliceLine \o "\n" \o BobLine

InfrastructureHits(speaker) == KeywordHits(lower(PassageText(speaker)), domains[2].keywords)

\* C10 as stated: on the Alice/Bob transcript, extract_skills gives Alice an
\* Infrastructure entry with hit_count >= 2.
C10_AliceHasInfrastructure ==
    (pcExtract = "profiled" /\ ctext = AliceBobText) =>
        \E i \in SpeakersNamed(xspeakers, "Alice") :
            \E k \in 1..Len(xspeakers[i].skills) :
                /\ xspeakers[i].skills[k].domain = "Infrastructure"
                /\ xspeakers[i].skills[k].hit_count >= 2

\* C10, amended: on the Alice/Bob transcript Alice's text has exactly 2 Infrastructure
\* hits (kubernetes, docker), below the qualifying count of 3, so the skill list
\* extract_skills returns for Alice has no Infrastructure entry.
C10_AliceBelowThreshold ==
    (pcExtract = "profiled" /\ ctext = AliceBobText) =>
        \A i \in SpeakersNamed(xspeakers, "Alice") :
            /\ InfrastructureHits(xspeakers[i]) = 2
            /\ \A k \in 1..Len(xspeakers[i].skills) :
                   xspeakers[i].skills[k].domain # "Infrastructure"

\* the Alice/Bob transcript, profiled, with Alice's one passage
C10_Witness ==
    /\ pcExtract = "profiled"
    /\ ctext = AliceBobText
    /\ \E i \in SpeakersNamed(xspeakers, "Alice") :
           /\ Len(xspeakers[i].passages) = 1
           /\ xspeakers[i].soul.passage_count = 1

\* the words (lower-cased runs of three or more letters) a speaker used
UsedWords(speaker) == UNION {WordsOf(speaker.passages[i].text) : i \in 1..Len(speaker.passages)}

\* the most words of the question that a single passage of the speaker shares
BestOverlap(question_words, speaker) ==
    Max({0} \cup {Overlap(question_words, speaker.passages[i]) : i \in 1..Len(speaker.passages)})

\* the last call was ask, with no target speaker, on the conference of the last
\* ingest, which was the first ingest under its name and extracted two labeled
\* speakers
AskedTwoSpeakers ==
    /\ op.kind = "ask"
    /\ op.speaker = ""
    /\ lastIngest.done /\ lastIngest.intact /\ ~lastIngest.replaced
    /\ op.name = lastIngest.name
    /\ Len(lastIngest.mind.speakers) = 2
    /\ "Unknown" \notin SpeakerNames(lastIngest.mind.speakers)

\* the speaker ask ranked first is the one named name
RankedFirst(name) == ret.kind = "answer" /\ ret.parts[1].name = name

TwoLabeledContrasting ==
    LET Labeled(speaker) == speaker.name # "Unknown"
        labeled == SelectSeq(lastIngest.mind.speakers, Labeled)
    IN  /\ Len(labeled) = 2
        /\ KeywordHits(lower(PassageText(labeled[1])), contrast_markers)
               + KeywordHits(lower(PassageText(labeled[2])), contrast_markers) >= 3

\* C12 as stated: for a transcript with exactly two labeled speakers whose contrast
\* markers number at least 3 together, ingest followed by load_mind returns a mind
\* whose tensions list has exactly one entry, naming both speakers.
C12_OneTensionForTwoLabeled ==
    (LoadedLastIngest /\ TwoLabeledContrasting) =>
        /\ ret.status = "ok"
        /\ Len(ret.mind.tensions) = 1
        /\ {ret.mind.tensions[1].speakers[1], ret.mind.tensions[1].speakers[2]}
               = SpeakerNames(lastIngest.mind.speakers) \ {"Unknown"}

\* C12, amended: when in addition no unlabeled text precedes the first label, so
\* that the two labeled speakers are the only speakers of the mind, ingest followed
\* by load_mind returns a mind whose tensions list has exactly one entry, naming both.
C12_OneTensionForTwoSpeakers ==
    (LoadedLastIngest /\ TwoLabeledContrasting /\ Len(lastIngest.mind.speakers) = 2) =>
        /\ ret.status = "ok"
        /\ Len(ret.mind.tensions) = 1
        /\ {ret.mind.tensions[1].speakers[1], ret.mind.tensions[1].speakers[2]}
               = SpeakerNames(lastIngest.mind.speakers)

\* a mind of two speakers with three markers was ingested and loaded with one entry
C12_Witness ==
    /\ LoadedLastIngest
    /\ TwoLabeledContrasting
    /\ Len(lastIngest.mind.speakers) = 2
    /\ ret.status = "ok"
    /\ Len(ret.mind.tensions) = 1
    /\ ret.mind.tensions[1].contrast_signals = 3

\* C13: route_question returns at most 3 speakers; each carries at least 1 and at
\* most 3 passages, every one with overlap > 0.1, in non-increasing overlap order;
\* and the speakers are in non-increasing score order (ask, which routes on the
\* loaded mind, lists at most 3 speakers in non-increasing score order).
C13_RoutedIsRanked ==
    /\ op.kind = "route" =>
           /\ Len(ret.results) <= 3
           /\ \A i \in 1..Len(ret.results) :
                  /\ Len(ret.results[i].passages) \in 1..3
                  /\ \A j \in 1..Len(ret.results[i].passages) :
                         10 * Overlap(WordsOf(op.question), ret.results[i].passages[j])
                             > Denominator(WordsOf(op.question))
                  /\ \A j \in 1..(Len(ret.results[i].passages) - 1) :
                         Overlap(WordsOf(op.question), ret.results[i].passages[j])
                             >= Overlap(WordsOf(op.question), ret.results[i].passages[j + 1])
           /\ \A i \in 1..(Len(ret.results) - 1) :
                  ret.results[i].score.num * ret.results[i + 1].score.den
                      >= ret.results[i + 1].score.num * ret.results[i].score.den
    /\ (op.kind = "ask" /\ ret.kind = "answer") =>
           /\ Len(ret.parts) <= 3
           /\ \A i \in 1..(Len(ret.parts) - 1) :
                  ret.parts[i].score.num * ret.parts[i + 1].score.den
                      >= ret.parts[i + 1].score.num * ret.parts[i].score.den

\* a mind of more than three speakers, all with relevant passages, was routed: three
\* speakers came back, the first with three passages out of more than three
C13_Witness ==
    /\ op.kind = "route"
    /\ op.speaker = ""
    /\ Len(lastIngest.mind.speakers) > 3
    /\ \A i \in 1..Len(lastIngest.mind.speakers) :
           RankedPassages(WordsOf(op.question), lastIngest.mind.speakers[i]) # <<>>
    /\ Len(ret.results) = 3
    /\ Len(ret.results[1].passages) = 3
    /\ Len(RankedPassages(WordsOf(op.question), ret.results[1].speaker)) > 3
    /\ ret.results[1].score.num > ret.results[2].score.num

\* C14: slugify is idempotent, slugify(slugify(x)) = slugify(x), and it ignores case
\* and the punctuation it strips: a name, its lower-cased form and its form without
\* the stripped characters have the same slug; "AI Summit!!" and "ai summit" both
\* give "ai-summit".
C14_SlugifyIdempotent ==
    /\ op.kind = "reslugify" => ret.slug = op.slug
    /\ op.kind = "slugify" =>
           /\ ret.slug = slugify(lower(op.name))
           /\ ret.slug = slugify(KeepSlugChars(op.name))
           /\ op.name \in {"AI Summit!!", "ai summit"} => ret.slug = "ai-summit"

\* the slug of "AI Summit!!" was slugified again and came back as "ai-summit"
C14_Witness ==
    /\ op.kind = "reslugify"
    /\ op.name = "AI Summit!!"
    /\ op.slug = "ai-summit"
    /\ ret.slug = "ai-summit"

\* C15: in the tensions list of every mind produced by ingest, each unordered pair
\* of speakers appears in at most one entry (never both (A,B) and (B,A)), and every
\* entry names two distinct speakers of that mind.
C15_TensionPairsUnique ==
    op.kind = "ingest" =>
        /\ \A i \in 1..Len(ret.mind.tensions) :
               /\ ret.mind.tensions[i].speakers[1] # ret.mind.tensions[i].speakers[2]
               /\ ret.mind.tensions[i].speakers[1] \in SpeakerNames(ret.mind.speakers)
               /\ ret.mind.tensions[i].speakers[2] \in SpeakerNames(ret.mind.speakers)
        /\ \A i, j \in 1..Len(ret.mind.tensions) :
               i # j => {ret.mind.tensions[i].speakers[1], ret.mind.tensions[i].speakers[2]}
                            # {ret.mind.tensions[j].speakers[1], ret.mind.tensions[j].speakers[2]}

\* ingest returned a mind of three speakers with two tension entries
C15_Witness ==
    /\ op.kind = "ingest"
    /\ Len(ret.mind.speakers) = 3
    /\ Len(ret.mind.tensions) = 2

\* C16: detect_format is total and first-match-wins: for every text it returns
\* exactly one of srt, vtt, youtube, labeled, raw, namely the first of the rules srt,
\* vtt, youtube, labeled that matches, and raw when none of the four matches.
C16_FirstMatchWins ==
    fmt # "" =>
        LET lines == Take(split(strip(text), "\n"), 20)
            Srt == /\ \E i \in 1..Len(lines) : i <= 5 /\ MatchAllDigits(strip(lines[i]))
                   /\ \E i \in 1..Len(lines) : i <= 10 /\ contains(lines[i], "-->")
            Vtt == startswith(strip(lines[1]), "WEBVTT")
            Youtube == \E i \in 1..Len(lines) : i <= 10 /\ ClockPrefixLen(strip(lines[i])) > 0
            Labeled == Cardinality({i \in 1..Len(lines) : LabelPatternMatch(strip(lines[i]))}) >= 3
        IN  /\ fmt \in {"srt", "vtt", "youtube", "labeled", "raw"}
            /\ fmt = "srt" <=> Srt
            /\ fmt = "vtt" <=> (~Srt /\ Vtt)
            /\ fmt = "youtube" <=> (~Srt /\ ~Vtt /\ Youtube)
            /\ fmt = "labeled" <=> (~Srt /\ ~Vtt /\ ~Youtube /\ Labeled)
            /\ fmt = "raw" <=> (~Srt /\ ~Vtt /\ ~Youtube /\ ~Labeled)

\* a text on which the srt, vtt and youtube rules all match was detected as srt
C16_Witness ==
    /\ text = "WEBVTT\n1\n0:00 --> 0:01\nAl: a"
    /\ fmt = "srt"

\* C17: in every ConferenceMind returned by ingest or by load_mind, every passage p
\* held in a speaker s's passage list satisfies p.speaker = s.name.
C17_PassagesCarrySpeakerName ==
    ((op.kind = "ingest" \/ op.kind = "load") /\ ret.status = "ok") =>
        \A i \in 1..Len(ret.mind.speakers) :
            \A j \in 1..Len(ret.mind.speakers[i].passages) :
                ret.mind.speakers[i].passages[j].speaker = ret.mind.speakers[i].name

\* C18: in every ConferenceMind returned by ingest or by load_mind, after any
\* sequence of ingests and deletes, themes and tensions are functions of the mind's
\* current speakers list: themes = detect_themes(speakers) and tensions =
\* detect_tensions(speakers).
C18_PatternsFollowSpeakers ==
    ((op.kind = "ingest" \/ op.kind = "load") /\ ret.status = "ok") =>
        /\ ret.mind.themes = detect_themes(ret.mind.speakers)
        /\ ret.mind.tensions = detect_tensions(ret.mind.speakers)

\* C19: speakers stay distinct through persistence: for a mind M returned by ingest,
\* load_mind(M.name) returns exactly as many speakers as M has (the saved
\* speaker_count), and every speaker of M is there with its own complete passage list.
C19_SpeakersStayDistinct ==
    (LoadedLastIngest /\ ~lastIngest.replaced) =>
        /\ ret.status = "ok"
        /\ Len(ret.mind.speakers) = Len(lastIngest.mind.speakers)
        /\ Len(ret.mind.speakers)
               = disk.files[Append(ConfDir(op.name), "meta.json")].speaker_count
        /\ \A i \in 1..Len(lastIngest.mind.speakers) :
               \E j \in 1..Len(ret.mind.speakers) :
                   ret.mind.speakers[j].passages = lastIngest.mind.speakers[i].passages

\* the records of list_minds whose display name is name
ListedAs(fs, name) == {list_minds(fs)[i] : i \in {k \in 1..Len(list_minds(fs)) : list_minds(fs)[k].name = name}}

\* C20: an ingest or a delete performed under display name X leaves every other
\* stored conference unchanged: for every Y with slugify(Y) # slugify(X), load_mind(Y)
\* and Y's entry in list_minds() are the same before and after the operation.
C20_OtherConferencesUnchanged ==
    [][(op'.kind = "ingest" \/ op'.kind = "delete") =>
           \A y \in Names :
               slugify(y) # slugify(op'.name) =>
                   /\ load_mind(disk', y) = load_mind(disk, y)
                   /\ ListedAs(disk', y) = ListedAs(disk, y)]_vars

\* C21: detect_themes returns the non-stop-word terms of at least 4 letters with
\* corpus count >= 5, ranked by count descending and cut to the top 15: when at
\* least 15 such terms exist the result has exactly 15 entries, otherwise it holds
\* every such term, whatever the number of distinct words and stop words.
C21_ThemesAreTopTerms ==
    pcExtract = "themed" =>
        LET words == Words(lower(CorpusText(xspeakers)), 4)
            Count(w) == Cardinality({j \in 1..Len(words) : words[j] = w})
            terms == {w \in {words[j] : j \in 1..Len(words)} :
                         w \notin stop_words /\ Count(w) >= 5}
            listed == {ret.themes[i].theme : i \in 1..Len(ret.themes)}
        IN  /\ listed \subseteq terms
            /\ Cardinality(listed) = Len(ret.themes)
            /\ \A i \in 1..Len(ret.themes) : ret.themes[i].frequency = Count(ret.themes[i].theme)
            /\ \A i \in 1..(Len(ret.themes) - 1) :
                   ret.themes[i].frequency >= ret.themes[i + 1].frequency
            /\ \A w \in terms \ listed : \A i \in 1..Len(ret.themes) :
                   Count(w) <= ret.themes[i].frequency
            /\ Len(ret.themes) = (IF Cardinality(terms) >= 15 THEN 15 ELSE Cardinality(terms))

\* C22: passage positions form a single global zero-based counter in transcript
\* order: across all speakers the positions are exactly 0..N-1 with no gap or
\* duplicate, the passage at position k is the k-th emitted (leading unlabeled
\* text first, then the labels that have text, in line order), and each speaker's
\* own passage list is in strictly increasing position order.
C22_PositionsAreGlobalCounter ==
    pcExtract \in {"segmented", "profiled"} =>
        LET emitting == SortedSeq({i \in LabelLines : LabelHasText(i)})
            lead == IF LeadingText THEN 1 ELSE 0
            Owner(k) == IF k < lead THEN "Unknown"
                        ELSE strip(SpeakerGroup1(SegLines[emitting[k - lead + 1]]))
        IN  /\ \A k \in 0..(TotalPassages - 1) :
                   Cardinality({<<i, j>> \in (1..Len(xspeakers)) \X (1..TotalPassages) :
                                   /\ j <= Len(xspeakers[i].passages)
                                   /\ xspeakers[i].passages[j].position = k}) = 1
            /\ \A i \in 1..Len(xspeakers) :
                   /\ \A j \in 1..Len(xspeakers[i].passages) :
                          /\ xspeakers[i].passages[j].position \in 0..(TotalPassages - 1)
                          /\ xspeakers[i].name = Owner(xspeakers[i].passages[j].position)
                   /\ \A j \in 1..(Len(xspeakers[i].passages) - 1) :
                          xspeakers[i].passages[j].position
                              < xspeakers[i].passages[j + 1].position

\* two speakers alternate: one holds the passages at positions 0 and 2, the other
\* the passage at position 1
C22_Witness ==
    /\ pcExtract = "segmented"
    /\ Len(xspeakers) = 2
    /\ Len(xspeakers[1].passages) = 2
    /\ xspeakers[1].passages[1].position = 0
    /\ xspeakers[1].passages[2].position = 2
    /\ xspeakers[2].passages[1].position = 1

\* C23: for every speaker returned by route_question, score = 0.7 * best passage
\* overlap + 0.3 * skill_bonus, where skill_bonus is 0.2 times the number of name
\* tokens of the speaker's skill domains (domain name lower-cased, split on '/') that
\* occur in the question's word set, with no cap: as exact fractions,
\* score = (70 overlap + 6 tokens d) / (100 d) with d = max(len(question_words), 1).
C23_ScoreIsWeightedSum ==
    op.kind = "route" =>
        \A i \in 1..Len(ret.results) :
            LET question_words == WordsOf(op.question)
                skills == ret.results[i].speaker.skills
                tokens == SumSeq([k \in 1..Len(skills) |->
                              LET skill_words == split(lower(skills[k].domain), "/")
                              IN  Cardinality({skill_words[j] : j \in 1..Len(skill_words)}
                                                  \cap question_words)])
            IN  ret.results[i].score.num * 100 * Denominator(question_words)
                    = (70 * BestOverlap(question_words, ret.results[i].speaker)
                           + 6 * tokens * Denominator(question_words))
                      * ret.results[i].score.den

\* a speaker with six matching skill domains and a passage holding every word of
\* the question was routed: the bonus is 1.2 and the score 1.06, above 1
C23_Witness ==
    /\ op.kind = "route"
    /\ Len(ret.results) = 2
    /\ SkillMatches(ret.results[1].speaker, WordsOf(op.question)) = 6
    /\ ret.results[1].score.num = 106 * 6
    /\ ret.results[1].score.den = 100 * 6
    /\ SkillMatches(ret.results[2].speaker, WordsOf(op.question)) = 1

=============================================================================
